---- MODULE Spec2Model ----
(***************************************************************************)
(* A model of src/wait.js: wait($element, options) watches one element and *)
(* triggers 'visible' on it, once, when it comes into the viewport.        *)
(*                                                                         *)
(* The state is the module-level `timestamps` array, jQuery's per-element  *)
(* data slot 'waitInstance', the window's registry of namespaced scroll    *)
(* and resize handlers, one closure per call of wait that got as far as    *)
(* line 76 (its $element, options, eventName and the state of its          *)
(* throttled checkVisible), the stack of checkVisible activations that are *)
(* inside user code ($element.trigger('visible') or options.callback), and *)
(* the page: scroll position, hidden elements, the clock.                  *)
(***************************************************************************)
EXTENDS Integers, Sequences, FiniteSets, TLC

\* ------------------------------------------------------------------ bounds
\* calls of generateEventNameSpace (length of `timestamps`)
MaxTokens == 2
\* throttle windows that the clock runs through
MaxTicks == 1
\* nesting of checkVisible activations (user code calling wait again)
MaxDepth == 2
\* 'visible' notifications of one watch that the model counts
MaxNotify == 2

\* ------------------------------------------------------------ the page
Elements == {"e1", "e2"}

\* What a caller may pass as $element: a one-element jQuery selection, an
\* empty jQuery selection, a raw DOM node (no jQuery object, no .length),
\* or null.
EmptySelection == "empty"
RawNode == "node"
Null == "null"
Targets == Elements \cup {EmptySelection, RawNode, Null}

\* a JavaScript value that may be undefined: <<>>, or <<v>> for the value v
Undefined == <<>>
Def(v) == <<v>>
Val(x) == x[1]

\* $element.offset().top and $element.height() (lines 84-85), $window.height()
\* (line 83): the page of the spec's example, element [100,200], window 90 high
ElementTop == 100
ElementHeight == 100
WindowHeight == 90
\* $window.scrollTop() (line 82): at 0 the element is below the viewport and
\* an offset of 20 reaches it, at 20 it is inside
ScrollTops == {0, 20}

\* options.offset (line 86) and whether options.callback is a function (102)
Offsets == {Undefined, Def(20)}
\* options.context (line 103): not given, an object, or a falsy value; by
\* default the page gives none
Window == "window"
Falsy == {"0", "false", ""}
Contexts == {Undefined, Def("object")} \cup {Def(v) : v \in Falsy}
Options == [offset : Offsets, callback : BOOLEAN, context : {Undefined}]

\* throttle(checkVisible, 100), line 109
Wait == 100
\* the clock advances by one throttle window at a time
TickStep == Wait
\* Date's reading when the page loads
Epoch == 10

VARIABLES
    timestamps,   \* line 10: the tokens issued so far
    data,         \* $element.data('waitInstance') of each element
    handlers,     \* the window's handlers: [type, ns, w], w the closure
    watches,      \* the closures of wait: [el, options, eventName]
    throttled,    \* per closure, the state of throttle(checkVisible, 100)
    stack,        \* checkVisible activations: [w, pc]
    scrollTop,    \* $window.scrollTop()
    hidden,       \* the elements for which $element.is(':hidden')
    clock,        \* ms since the page loaded
    result,       \* the last call of wait: its target and how it ended
    log           \* per closure, what has been observed of it

vars == <<timestamps, data, handlers, watches, throttled, stack, scrollTop,
          hidden, clock, result, log>>

Range(s) == {s[i] : i \in 1..Len(s)}
Watches == 1..Len(watches)

\* new Date().getTime(), line 21
Now == Epoch + clock

\* ------------------------------------------------- generateEventNameSpace
\* lines 21-27: the timestamp that is recorded and used, given the array so
\* far and the clock's reading; a reading already used is moved by the
\* array's length
NameSpaceTimestamp(S, timestamp) ==
    IF timestamp \in Range(S) THEN timestamp + Len(S) ELSE timestamp

\* line 31: 'scroll.'+timestamp+' resize.'+timestamp, as the list of
\* (event type, namespace) pairs that jQuery's on/off split the string into
EventName(timestamp) ==
    << [type |-> "scroll", ns |-> timestamp],
       [type |-> "resize", ns |-> timestamp] >>

\* lines 20-32: the array after the call and the string returned
generateEventNameSpace(S, timestamp) ==
    LET t == NameSpaceTimestamp(S, timestamp)
    IN  [timestamps |-> Append(S, t), eventName |-> EventName(t)]

\* ------------------------------------------------------- jQuery on / off
\* $window.on(eventName, fn): one handler per event type named, fn being
\* the throttled checkVisible of closure w
WindowOn(H, eventName, w) ==
    H \cup {[type |-> eventName[i].type, ns |-> eventName[i].ns, w |-> w] :
                i \in 1..Len(eventName)}

\* (mutant) off that removes nothing
WindowOffNothing(H, eventName) == H

\* $window.off(eventName): every handler of a named type in the named
\* namespace goes, whichever closure registered it
WindowOff(H, eventName) ==
    {h \in H : ~\E i \in 1..Len(eventName) :
                  h.type = eventName[i].type /\ h.ns = eventName[i].ns}

\* ------------------------------------------------------ the guard, line 46
\* `!$element instanceof $` parses as `(!$element) instanceof $`: a boolean is
\* never an instance of jQuery
NotInstanceOfJQuery(target) == FALSE

\* $element.length: 1 or 0 for a selection, undefined for a DOM node
Length(target) ==
    CASE target \in Elements -> Def(1)
      [] target = EmptySelection -> Def(0)
      [] OTHER -> Undefined

\* reading .length of null throws
LengthThrows(target) == target = Null

\* (mutant) a guard that never finds the selection empty
TooShortNever(target) == FALSE

\* `undefined < 1` is false
TooShort(target) == Length(target) # Undefined /\ Val(Length(target)) < 1

\* line 46: whether wait returns false
Rejected(target) == NotInstanceOfJQuery(target) \/ TooShort(target)

\* line 67: $element.data exists on jQuery objects only
HasData(target) == target \in Elements \cup {EmptySelection}

\* ------------------------------------------------- checkVisible, lines 82-90
\* (mutant) the configured offset ignored
OffsetIgnored(options) == 0

\* line 86
OffsetOf(options) ==
    IF options.offset = Undefined THEN 0 ELSE Val(options.offset)

\* (mutant) the viewport's top edge tested strictly: an element whose widened
\* bottom edge lies on it is taken to be out of view
InViewStrict(windowTop, windowBottom, elementTop, elementBottom, offset) ==
    /\ (elementBottom + offset) > windowTop
    /\ (elementTop - offset) <= windowBottom

\* (mutant) the test of the viewport's bottom edge left out
InViewTopOnly(windowTop, windowBottom, elementTop, elementBottom, offset) ==
    (elementBottom + offset) >= windowTop

\* line 89
InView(windowTop, windowBottom, elementTop, elementBottom, offset) ==
    /\ (elementBottom + offset) >= windowTop
    /\ (elementTop - offset) <= windowBottom

\* (mutant) the hidden test left out
IsHiddenNever(el) == FALSE

\* line 90: $element.is(':hidden')
IsHidden(el) == el \in hidden

\* lines 82-90 for closure w, on the page as it is now: "fire", "hidden"
\* (the early return of line 90) or "out"
Evaluate(w) ==
    LET windowTop == scrollTop
        windowBottom == windowTop + WindowHeight
        elementTop == ElementTop
        elementBottom == elementTop + ElementHeight
        offset == OffsetOf(watches[w].options)
    IN  IF InView(windowTop, windowBottom, elementTop, elementBottom, offset)
        THEN IF IsHidden(watches[w].el) THEN "hidden" ELSE "fire"
        ELSE "out"

\* --------------------------------------------- throttle(checkVisible, 100)
\* lodash's throttle is debounce with leading and trailing edges and
\* maxWait = wait. Its state per throttled function:
NewThrottle ==
    [timerId |-> Undefined, lastArgs |-> FALSE,
     lastCallTime |-> Undefined, lastInvokeTime |-> 0]

Min(a, b) == IF a < b THEN a ELSE b
Max(a, b) == IF a > b THEN a ELSE b

shouldInvoke(th, time) ==
    \/ th.lastCallTime = Undefined
    \/ /\ th.lastCallTime # Undefined
       /\ \/ time - Val(th.lastCallTime) >= Wait
          \/ time - Val(th.lastCallTime) < 0
    \/ time - th.lastInvokeTime >= Wait

remainingWait(th, time) ==
    Min(Wait - (time - Val(th.lastCallTime)),
        Wait - (time - th.lastInvokeTime))

\* setTimeout(timerExpired, ms): the timer's due time on the monotonic clock
SetTimeout(ms) == Def(clock + Max(0, ms))

\* invokeFunc: the pending arguments are consumed, then func is called
invokeFunc(th, time) == [th EXCEPT !.lastArgs = FALSE, !.lastInvokeTime = time]

\* the throttled function called at wall time `time`: the new state and
\* whether checkVisible is invoked
debounced(th, time) ==
    LET called == [th EXCEPT !.lastArgs = TRUE, !.lastCallTime = Def(time)]
    IN  IF shouldInvoke(th, time)
        THEN \* leadingEdge, or an invocation in a tight loop: the timer is
             \* (re)started and func invoked
             [th |-> invokeFunc([called EXCEPT !.timerId = SetTimeout(Wait)],
                                time),
              invoke |-> TRUE]
        ELSE [th |-> IF th.timerId = Undefined
                     THEN [called EXCEPT !.timerId = SetTimeout(Wait)]
                     ELSE called,
              invoke |-> FALSE]

\* (mutant) a throttle without the trailing edge: the deferred call is dropped
timerExpiredNoTrailing(th, time) ==
    IF shouldInvoke(th, time)
    THEN [th |-> [th EXCEPT !.timerId = Undefined, !.lastArgs = FALSE],
          invoke |-> FALSE]
    ELSE [th |-> [th EXCEPT !.timerId = SetTimeout(remainingWait(th, time))],
          invoke |-> FALSE]

\* the timer's callback at wall time `time`
timerExpired(th, time) ==
    IF shouldInvoke(th, time)
    THEN \* trailingEdge
         IF th.lastArgs
         THEN [th |-> invokeFunc([th EXCEPT !.timerId = Undefined], time),
               invoke |-> TRUE]
         ELSE [th |-> [th EXCEPT !.timerId = Undefined], invoke |-> FALSE]
    ELSE [th |-> [th EXCEPT !.timerId = SetTimeout(remainingWait(th, time))],
          invoke |-> FALSE]

\* ------------------------------------------------------------ the state
Init ==
    /\ timestamps = <<>>
    /\ data = [e \in Elements |-> Undefined]
    /\ handlers = {}
    /\ watches = <<>>
    /\ throttled = <<>>
    /\ stack = <<>>
    /\ scrollTop \in ScrollTops
    /\ hidden \in SUBSET Elements
    /\ clock = 0
    /\ result = [target |-> "none", value |-> "none"]
    /\ log = <<>>

Top == stack[Len(stack)]
Pop(st) == SubSeq(st, 1, Len(st) - 1)
\* (mutant) handlers that do not wait for the running one to return
IdleAlways == TRUE

Idle == stack = <<>>
\* inside $element.trigger('visible') or options.callback: the code running
\* is the page's own
InUserCode == stack # <<>> /\ Top.pc \in {"visible", "callback"}

\* A call of checkVisible by closure w and how it came about: "immediate"
\* (line 112), or from the throttled function on an "event" or on its "timer"
CallCheckVisible(st, w, how) ==
    Append(st, [w |-> w, pc |-> "check", how |-> how, this |-> Undefined])

\* An uncaught TypeError in wait(target) unwinds every activation: nothing
\* in wait.js, jQuery's event dispatch or the throttle catches it
Throw(target) ==
    /\ stack' = <<>>
    /\ result' = [target |-> target, value |-> "TypeError"]

\* What is observed of a new closure: the counts of its 'visible'
\* notifications and of its callback's invocations, and whether a later wait
\* on its element came before it fired
NewLog == [notified |-> 0, called |-> 0, superseded |-> FALSE]

\* ------------------------------------------------------------- wait, 45-113
\* (maxTokens bounds the calls of the generator)
waitWithin(maxTokens, target, options) ==
    /\ Idle \/ InUserCode
    /\ IF LengthThrows(target)
       THEN \* line 46: null.length
            /\ Throw(target)
            /\ UNCHANGED <<timestamps, data, handlers, watches, throttled,
                           scrollTop, hidden, clock, log>>
       ELSE IF Rejected(target)
       THEN \* line 46: return false
            /\ result' = [target |-> target, value |-> "false"]
            /\ UNCHANGED <<timestamps, data, handlers, watches, throttled,
                           stack, scrollTop, hidden, clock, log>>
       ELSE /\ Len(timestamps) < maxTokens
            /\ LET g == generateEventNameSpace(timestamps, Now)      \* line 60
                   eventName == g.eventName
               IN  /\ timestamps' = g.timestamps
                   /\ IF ~HasData(target) \/ target \notin Elements
                      THEN \* line 67: $element.data is not a function (an
                           \* empty selection, had line 46 let it pass,
                           \* would throw in line 84: its offset() is
                           \* undefined)
                           /\ Throw(target)
                           /\ UNCHANGED <<data, handlers, watches, throttled,
                                          log>>
                      ELSE LET w == Len(watches) + 1
                               oldEventName == data[target]          \* line 67
                               H == IF oldEventName # Undefined      \* 71-73
                                    THEN WindowOff(handlers, oldEventName)
                                    ELSE handlers
                           IN  /\ Len(stack) < MaxDepth
                               /\ data' = [data EXCEPT ![target] = eventName]
                               /\ watches' = Append(watches,
                                      [el |-> target, options |-> options,
                                       eventName |-> eventName])
                               /\ throttled' = Append(throttled, NewThrottle)
                               /\ handlers' = WindowOn(H, eventName, w) \* 109
                               /\ stack' = CallCheckVisible(stack, w, "immediate")
                               /\ result' = [target |-> "element",
                                             value |-> "undefined"]
                               /\ log' = Append(
                                      [v \in Watches |->
                                          IF watches[v].el = target
                                             /\ log[v].notified = 0
                                          THEN [log[v] EXCEPT
                                                   !.superseded = TRUE]
                                          ELSE log[v]],
                                      NewLog)
            /\ UNCHANGED <<scrollTop, hidden, clock>>

wait(target, options) == waitWithin(MaxTokens, target, options)

\* ---------------------------------------------------- checkVisible, 81-106
\* lines 82-93: the evaluation, up to the call of $element.trigger('visible')
checkVisible ==
    /\ stack # <<>>
    /\ Top.pc = "check"
    /\ LET w == Top.w
           outcome == Evaluate(w)
       IN  IF outcome = "fire"
           THEN /\ log' = [log EXCEPT ![w].notified = @ + 1]
                /\ stack' = [stack EXCEPT ![Len(stack)].pc = "visible"]
           ELSE /\ stack' = Pop(stack)
                /\ UNCHANGED log
    /\ UNCHANGED <<timestamps, data, handlers, watches, throttled, scrollTop,
                   hidden, clock, result>>

\* (mutant) the callback called on the global object whatever the context
ThisArgWindow(options) == Window

\* line 103: options.context || window
ThisArg(options) ==
    IF options.context # Undefined /\ Val(options.context) \notin Falsy
    THEN Val(options.context)
    ELSE Window

\* lines 93-103: trigger('visible') returns; the marker and the handlers go;
\* the callback, if there is one, is called
visibleReturns ==
    /\ stack # <<>>
    /\ Top.pc = "visible"
    /\ LET w == Top.w
           c == watches[w]
       IN  /\ data' = [data EXCEPT ![c.el] = Undefined]              \* line 96
           /\ handlers' = WindowOff(handlers, c.eventName)           \* line 99
           /\ IF c.options.callback                                  \* 102-103
              THEN /\ log' = [log EXCEPT ![w].called = @ + 1]
                   /\ stack' = [stack EXCEPT
                                    ![Len(stack)].pc = "callback",
                                    ![Len(stack)].this =
                                        Def(ThisArg(c.options))]
              ELSE /\ stack' = Pop(stack)
                   /\ UNCHANGED log
    /\ UNCHANGED <<timestamps, watches, throttled, scrollTop, hidden, clock,
                   result>>

\* lines 103-106: the callback returns, and checkVisible with it
callbackReturns ==
    /\ stack # <<>>
    /\ Top.pc = "callback"
    /\ stack' = Pop(stack)
    /\ UNCHANGED <<timestamps, data, handlers, watches, throttled, scrollTop,
                   hidden, clock, result, log>>

\* ------------------------------------------------------- the event loop
\* A scroll or resize event reaches a handler registered on the window: the
\* throttled checkVisible of closure w is called (line 109)
WindowEvent(type, w) ==
    /\ Idle
    /\ w \in Watches
    /\ [type |-> type, ns |-> watches[w].eventName[1].ns, w |-> w] \in handlers
    /\ log[w].notified < MaxNotify
    /\ LET d == debounced(throttled[w], Now)
       IN  /\ throttled' = [throttled EXCEPT ![w] = d.th]
           /\ stack' = IF d.invoke
                       THEN CallCheckVisible(stack, w, "event")
                       ELSE stack
    /\ UNCHANGED <<timestamps, data, handlers, watches, scrollTop, hidden,
                   clock, result, log>>

\* The timer that the throttle of closure w set expires
TimerExpired(w) ==
    /\ Idle
    /\ w \in Watches
    /\ throttled[w].timerId # Undefined
    /\ clock >= Val(throttled[w].timerId)
    /\ log[w].notified < MaxNotify
    /\ LET d == timerExpired(throttled[w], Now)
       IN  /\ throttled' = [throttled EXCEPT ![w] = d.th]
           /\ stack' = IF d.invoke
                       THEN CallCheckVisible(stack, w, "timer")
                       ELSE stack
    /\ UNCHANGED <<timestamps, data, handlers, watches, scrollTop, hidden,
                   clock, result, log>>

\* Time passes
Tick ==
    /\ Idle
    /\ clock + TickStep <= MaxTicks * TickStep
    /\ clock' = clock + TickStep
    /\ UNCHANGED <<timestamps, data, handlers, watches, throttled, stack,
                   scrollTop, hidden, result, log>>

\* The page scrolls
Scroll(y) ==
    /\ Idle
    /\ y # scrollTop
    /\ scrollTop' = y
    /\ UNCHANGED <<timestamps, data, handlers, watches, throttled, stack,
                   hidden, clock, result, log>>

\* An element is hidden or shown
Hide(el) ==
    /\ Idle
    /\ el \notin hidden
    /\ hidden' = hidden \cup {el}
    /\ UNCHANGED <<timestamps, data, handlers, watches, throttled, stack,
                   scrollTop, clock, result, log>>

Show(el) ==
    /\ Idle
    /\ el \in hidden
    /\ hidden' = hidden \ {el}
    /\ UNCHANGED <<timestamps, data, handlers, watches, throttled, stack,
                   scrollTop, clock, result, log>>

Next ==
    \/ \E target \in Targets, options \in Options : wait(target, options)
    \/ checkVisible
    \/ visibleReturns
    \/ callbackReturns
    \/ \E type \in {"scroll", "resize"}, w \in Watches : WindowEvent(type, w)
    \/ \E w \in Watches : TimerExpired(w)
    \/ Tick
    \/ \E y \in ScrollTops : Scroll(y)
    \/ \E el \in Elements : Hide(el)
    \/ \E el \in Elements : Show(el)

Spec == Init /\ [][Next]_vars

\* ------------------------------------------ the generator on its own
\* Calls of generateEventNameSpace alone, the clock returning any reading
\* on each call: Date's clock is the system's, which may be set back
MaxCalls == 4
MaxReading == 8
Readings == 1..MaxReading

Generate(reading) ==
    /\ Len(timestamps) < MaxCalls
    /\ timestamps' = generateEventNameSpace(timestamps, reading).timestamps
    /\ UNCHANGED <<data, handlers, watches, throttled, stack, scrollTop,
                   hidden, clock, result, log>>

NextGen == \E reading \in Readings : Generate(reading)

SpecGen == Init /\ [][NextGen]_vars

\* ------------------------------------ one watch, the page scrolled widely
\* One watch on one element, and the page scrolled to either side of the
\* element: above it, onto each edge of the overlap test, and past it
WideScrollTops == {0, 10, 200, 210, 220, 230}

InitOverlap ==
    /\ timestamps = <<>>
    /\ data = [el \in Elements |-> Undefined]
    /\ handlers = {}
    /\ watches = <<>>
    /\ throttled = <<>>
    /\ stack = <<>>
    /\ scrollTop \in WideScrollTops
    /\ hidden \in SUBSET Elements
    /\ clock = 0
    /\ result = [target |-> "none", value |-> "none"]
    /\ log = <<>>

\* the page's first call of wait, on an element
waitFirst(target, options) ==
    /\ watches = <<>>
    /\ wait(target, options)

NextOverlap ==
    \/ \E target \in Elements, options \in Options : waitFirst(target, options)
    \/ checkVisible
    \/ visibleReturns
    \/ callbackReturns
    \/ \E type \in {"scroll", "resize"}, w \in Watches : WindowEvent(type, w)
    \/ \E w \in Watches : TimerExpired(w)
    \/ Tick
    \/ \E y \in WideScrollTops : Scroll(y)
    \/ \E el \in Elements : Hide(el)
    \/ \E el \in Elements : Show(el)

SpecOverlap == InitOverlap /\ [][NextOverlap]_vars

\* ------------------------------------ the system clock set back and forth
\* Calls of wait on elements while the system clock, which new Date() reads in
\* line 21, is set between the calls: forth by as many milliseconds as tokens
\* were issued, and back again
MaxSkewTokens == 3
MaxSkew == 2
ClockSettings == 0..MaxSkew

\* the system clock is set
SetClock(t) ==
    /\ Idle
    /\ t # clock
    /\ clock' = t
    /\ UNCHANGED <<timestamps, data, handlers, watches, throttled, stack,
                   scrollTop, hidden, result, log>>

waitSkewed(target, options) == waitWithin(MaxSkewTokens, target, options)

NextSkew ==
    \/ \E target \in Elements, options \in Options : waitSkewed(target, options)
    \/ checkVisible
    \/ visibleReturns
    \/ callbackReturns
    \/ \E t \in ClockSettings : SetClock(t)

SpecSkew == Init /\ [][NextSkew]_vars

\* ------------------------------------------- callbacks with a context
\* Calls of wait on elements, each with a callback and any of the contexts
ContextOptions == [offset : {Undefined}, callback : {TRUE}, context : Contexts]

NextContext ==
    \/ \E target \in Elements, options \in ContextOptions :
          wait(target, options)
    \/ checkVisible
    \/ visibleReturns
    \/ callbackReturns
    \/ \E type \in {"scroll", "resize"}, w \in Watches : WindowEvent(type, w)
    \/ \E y \in ScrollTops : Scroll(y)
    \/ \E el \in Elements : Hide(el)
    \/ \E el \in Elements : Show(el)

SpecContext == Init /\ [][NextContext]_vars

\* ----------------------------------------- the event loop, run fairly
\* Calls of wait on elements and the event loop, with the fairness that the
\* browser's event loop gives: code that is running runs on to its return,
\* time passes, and a timer that is due is run.
\* Events arrive while the clock of the model has a throttle's wait left to
\* run, so that every timer they set can come due.
TimedEvent(type, w) ==
    /\ clock + Wait <= MaxTicks * TickStep
    /\ WindowEvent(type, w)

NextLive ==
    \/ \E target \in Elements, options \in Options : wait(target, options)
    \/ checkVisible
    \/ visibleReturns
    \/ callbackReturns
    \/ \E type \in {"scroll", "resize"}, w \in Watches : TimedEvent(type, w)
    \/ \E w \in Watches : TimerExpired(w)
    \/ Tick
    \/ \E y \in ScrollTops : Scroll(y)
    \/ \E el \in Elements : Hide(el)
    \/ \E el \in Elements : Show(el)

Fairness ==
    /\ WF_vars(checkVisible)
    /\ WF_vars(visibleReturns)
    /\ WF_vars(callbackReturns)
    /\ WF_vars(Tick)
    /\ \A w \in 1..MaxTokens : WF_vars(TimerExpired(w))

SpecLive == Init /\ [][NextLive]_vars /\ Fairness

\* ================================================================ claims

\* C1: the watch made by a call of wait emits 'visible' at most once and
\* invokes its callback at most once, whatever happens afterwards.
FiresAtMostOnce ==
    \A w \in Watches : log[w].notified <= 1 /\ log[w].called <= 1

\* C2: once a second wait is called on an element before the first watch
\* there has fired, the first watch's callback is never invoked.
SupersededNeverCalled ==
    \A w \in Watches : log[w].superseded => log[w].called = 0

\* C3: an element has at most one active watch: every handler registered on
\* the window for a watch of the element is in the namespace that the
\* element's 'waitInstance' marker holds.
OneActiveWatchPerElement ==
    \A h \in handlers :
        data[watches[h.w].el] = watches[h.w].eventName

\* The overlap of closure w's element, widened by its offset, with the
\* viewport when the page is scrolled to y: the condition of the spec's 4.2,
\* written out on the page's numbers
OverlapsAt(w, y) ==
    LET offset == IF watches[w].options.offset = Undefined
                  THEN 0 ELSE Val(watches[w].options.offset)
    IN  /\ ElementTop + ElementHeight + offset >= y
        /\ ElementTop - offset <= y + WindowHeight
Overlaps(w) == OverlapsAt(w, scrollTop)
Rendered(w) == watches[w].el \notin hidden

\* checkVisible is about to evaluate closure w
Evaluating(w) == stack # <<>> /\ Top.w = w /\ Top.pc = "check"

\* both of closure w's handlers are registered on the window
Listening(w) ==
    \A type \in {"scroll", "resize"} :
        [type |-> type, ns |-> watches[w].eventName[1].ns, w |-> w] \in handlers

\* C4: when a watch's callback starts, the watch's handlers are off the
\* window and its element's marker is cleared; and the return of the callback
\* (all that is left of the evaluation) changes no marker and no handler, so a
\* watch installed from inside the callback stays as installed.
TornDownBeforeCallback ==
    /\ [][\A w \in Watches :
             log'[w].called > log[w].called =>
                 /\ data'[watches[w].el] = Undefined
                 /\ ~\E h \in handlers' : h.w = w]_vars
    /\ [][(stack # <<>> /\ Top.pc = "callback" /\ Len(stack') < Len(stack)) =>
             (data' = data /\ handlers' = handlers)]_vars

\* a callback is running (so its watch is torn down), and a wait called from
\* inside it has installed a new watch on the same element and returned
WitnessAttachInCallback ==
    /\ Len(stack) = 1
    /\ Top.pc = "callback"
    /\ \E v \in Watches :
          /\ v > Top.w
          /\ watches[v].el = watches[Top.w].el
          /\ data[watches[v].el] = watches[v].eventName
          /\ Listening(v)

\* C5: the immediate evaluation of a watch on an element that had no watch
\* before, is rendered and overlaps the viewport emits 'visible', for the
\* first and only time during that call of wait, before any scroll or resize
\* event has reached the watch.
FiresDuringAttach ==
    /\ [][\A w \in Watches :
             (/\ Evaluating(w)
              /\ Top.how = "immediate"
              /\ \A v \in 1..(w - 1) : watches[v].el # watches[w].el
              /\ Rendered(w)
              /\ Overlaps(w))
             => /\ log[w].notified = 0
                /\ log'[w].notified = 1
                /\ throttled[w].lastCallTime = Undefined]_vars
    /\ [](\A i \in 1..Len(stack) :
             (stack[i].how = "immediate" /\ stack[i].pc # "check") =>
                 log[stack[i].w].notified = 1)

\* the first watch of an element is inside trigger('visible') of its
\* immediate evaluation
WitnessFiredDuringAttach ==
    /\ stack # <<>>
    /\ Top.pc = "visible"
    /\ Top.how = "immediate"
    /\ \A v \in 1..(Top.w - 1) : watches[v].el # watches[Top.w].el
    /\ log[Top.w].notified = 1
    /\ throttled[Top.w].lastCallTime = Undefined

\* C6: 'visible' is emitted only by an evaluation of the watch that finds the
\* element, widened by the offset, overlapping the viewport, and the callback
\* is invoked only after a notification: an element out of view at the call of
\* wait is notified of nothing before such an evaluation.
NotifiedOnlyOnOverlap ==
    [][\A w \in Watches :
          /\ log'[w].notified > log[w].notified =>
                 (Evaluating(w) /\ Overlaps(w))
          /\ log'[w].called > log[w].called => log[w].notified >= 1
          /\ log'[w].called <= log'[w].notified]_vars

\* a watch out of view has been evaluated on an event and has notified nothing
WitnessOutOfViewSilent ==
    /\ Idle
    /\ \E w \in Watches :
          /\ ~Overlaps(w)
          /\ throttled[w].lastCallTime # Undefined
          /\ log[w].notified = 0
          /\ log[w].called = 0

\* C7: an evaluation that finds the element hidden while it overlaps the
\* viewport notifies nothing, calls nothing and leaves marker and handlers as
\* they are; an evaluation that finds it shown and overlapping fires.
HiddenSkipsShownFires ==
    [][\A w \in Watches :
          (Evaluating(w) /\ Overlaps(w)) =>
              IF Rendered(w)
              THEN log'[w].notified = log[w].notified + 1
              ELSE log' = log /\ data' = data /\ handlers' = handlers]_vars

\* a watch whose element overlaps the viewport wherever the page is scrolled
\* did not fire in its immediate evaluation (so the element was hidden then)
\* and is now firing, for the first time, on an event or a timer
WitnessFiredOnceShown ==
    /\ stack # <<>>
    /\ Top.pc = "visible"
    /\ Top.how # "immediate"
    /\ log[Top.w].notified = 1
    /\ \A y \in ScrollTops : OverlapsAt(Top.w, y)

\* C8: wait on an empty selection returns false and changes nothing: no
\* handler, no marker, no token, no closure, no evaluation.
EmptySelectionIsNoOp ==
    [][(result' # result /\ result'.target = EmptySelection) =>
          /\ result'.value = "false"
          /\ UNCHANGED <<timestamps, data, handlers, watches, throttled,
                         stack, log>>]_vars

\* wait on an empty selection has returned false, called from the page's code
\* inside a firing watch
WitnessEmptyRejected ==
    /\ result = [target |-> EmptySelection, value |-> "false"]
    /\ stack # <<>>
    /\ handlers # {}

\* C9: wait on any invalid target, an empty selection or a value that is no
\* jQuery object, returns the failure indicator and raises no exception.
InvalidTargetFailsSilently ==
    result.target \in {EmptySelection, RawNode, Null} => result.value = "false"

\* C10: every token the generator returns differs from all it returned
\* before, whatever the clock reads.
TokensDistinct ==
    \A i, j \in 1..Len(timestamps) : i # j => timestamps[i] # timestamps[j]

\* this step starts an evaluation of closure w made by its throttled function,
\* on an event or on the throttle's timer
ThrottledEvaluationStarts(w) ==
    /\ Len(stack') = Len(stack) + 1
    /\ stack'[Len(stack')].w = w
    /\ stack'[Len(stack')].how # "immediate"

\* C11: a watch's evaluations caused by scroll and resize events are rate
\* limited: an evaluation made by the throttled function comes no sooner than
\* 100ms after the one it made before.
ThrottledEvaluationsSpaced ==
    [][\A w \in Watches :
          (ThrottledEvaluationStarts(w)
           /\ throttled[w].lastCallTime # Undefined) =>
              Now - throttled[w].lastInvokeTime >= Wait]_vars

\* C12: an evaluation of a watch whose element is rendered fires exactly when
\* elementBottom + offset >= viewportTop and elementTop - offset <=
\* viewportBottom, the offset being the configured one or 0; so the element
\* [100, 200] against the viewport [0, 90] is in view with offset 20 and out
\* of view with offset 0.
FiresIffOverlaps ==
    /\ [][\A w \in Watches :
             (Evaluating(w) /\ Rendered(w)) =>
                 IF Overlaps(w)
                 THEN /\ log'[w].notified = log[w].notified + 1
                      /\ stack' = [stack EXCEPT ![Len(stack)].pc = "visible"]
                 ELSE /\ log' = log
                      /\ stack' = Pop(stack)]_vars
    /\ [](/\ InView(0, 90, 100, 200, OffsetOf([offset |-> Def(20)]))
          /\ ~InView(0, 90, 100, 200, OffsetOf([offset |-> Undefined])))

\* the spec's example: a watch with offset 20 on the element [100, 200] has
\* fired with the viewport at [0, 90], where the element itself is below it
WitnessFiredWithinOffset ==
    /\ stack # <<>>
    /\ Top.pc = "visible"
    /\ scrollTop = 0
    /\ watches[Top.w].options.offset = Def(20)
    /\ ElementTop > scrollTop + WindowHeight

\* closure w has fired and that evaluation is over
Done(w) ==
    /\ log[w].notified >= 1
    /\ \A i \in 1..Len(stack) : stack[i].w # w

\* the closures made for element el, and the latest of them
WatchesOf(el) == {w \in Watches : watches[w].el = el}
Latest(el) == CHOOSE w \in WatchesOf(el) : \A v \in WatchesOf(el) : v <= w

\* this step is a call of wait that makes a closure for element el
Attaches(el) ==
    /\ Len(watches') = Len(watches) + 1
    /\ watches'[Len(watches')].el = el

\* C13: after the watch on an element has fired, the element's marker is
\* cleared and no handler of a watch of the element is left on the window, so
\* that the next wait on the element acts as on an element never watched: it
\* removes no handler and adds its own pair, under its own marker.
FreshAfterFiring ==
    /\ [](\A el \in Elements :
             (WatchesOf(el) # {} /\ Done(Latest(el))) =>
                 /\ data[el] = Undefined
                 /\ ~\E h \in handlers : watches[h.w].el = el)
    /\ [][\A el \in Elements :
             (WatchesOf(el) # {} /\ Done(Latest(el)) /\ Attaches(el)) =>
                 LET w == Len(watches')
                 IN  /\ handlers' = WindowOn(handlers, watches'[w].eventName, w)
                     /\ handlers \subseteq handlers'
                     /\ data'[el] = watches'[w].eventName]_vars

\* C14: once a watch has fired, checkVisible is not evaluated for it again:
\* neither an event nor a throttle timer that was pending when it fired starts
\* another evaluation of it.
NoEvaluationAfterFiring ==
    [][\A w \in Watches :
          (/\ Len(stack') = Len(stack) + 1
           /\ stack'[Len(stack')].w = w
           /\ stack'[Len(stack')].pc = "check") =>
              log[w].notified = 0]_vars

\* the handlers in H of the closures in W made for element el
HandlersOf(H, W, el) == {h \in H : W[h.w].el = el}

\* this step is the teardown of a firing watch of element el (lines 96-103)
TearsDown(el) ==
    /\ stack # <<>>
    /\ Top.pc = "visible"
    /\ watches[Top.w].el = el
    /\ watches' = watches

\* C15: firing a watch of one element, superseding it or attaching a watch to
\* the element leaves the watches of every other element as they are: a step
\* that is neither a teardown of a watch of an element nor a wait on that
\* element changes neither the element's marker nor the handlers registered
\* for its watches.
OtherElementsUntouched ==
    [][\A el \in Elements :
          \/ TearsDown(el)
          \/ Attaches(el)
          \/ /\ data'[el] = data[el]
             /\ HandlersOf(handlers', watches', el)
                    = HandlersOf(handlers, watches, el)]_vars

\* C16: a watch is destroyed only by firing or by being superseded: as long as
\* a watch has not fired and no later wait was called on its element, the
\* element's marker is the watch's token and the watch's scroll and resize
\* handlers are both registered.
LiveWatchIntact ==
    \A w \in Watches :
        (log[w].notified = 0 /\ ~log[w].superseded) =>
            /\ data[watches[w].el] = watches[w].eventName
            /\ Listening(w)

\* C17: the immediate evaluation that wait makes is the first evaluation of
\* its watch: while it has not started, the watch's handlers are registered
\* already, yet no scroll or resize event has reached the watch's throttled
\* function and no other activation of checkVisible runs before it.
ImmediateEvaluationFirst ==
    \A i \in 1..Len(stack) :
        (stack[i].how = "immediate" /\ stack[i].pc = "check") =>
            /\ i = Len(stack)
            /\ Listening(stack[i].w)
            /\ throttled[stack[i].w].lastCallTime = Undefined
            /\ throttled[stack[i].w].timerId = Undefined

\* an evaluation that a scroll or resize event started is about to run, for a
\* watch whose immediate evaluation is over
WitnessEventEvaluation ==
    /\ Len(stack) = 1
    /\ Top.pc = "check"
    /\ Top.how = "event"
    /\ throttled[Top.w].lastCallTime # Undefined

\* the context that the closure of activation i was given
ContextOf(i) == watches[stack[i].w].options.context

\* C18 as stated: a callback is invoked with `this` bound to the configured
\* context for every context value that was given, and to the global object
\* only when no context was given.
CallbackThisIsContext ==
    \A i \in 1..Len(stack) :
        stack[i].pc = "callback" =>
            /\ ContextOf(i) # Undefined => stack[i].this = ContextOf(i)
            /\ stack[i].this = Def(Window) => ContextOf(i) = Undefined

\* C18, amended: a callback is invoked with `this` bound to the configured
\* context when that value is truthy (as every object is), and to the global
\* object when no context was given or the value given is falsy.
CallbackThisIsTruthyContext ==
    \A i \in 1..Len(stack) :
        stack[i].pc = "callback" =>
            IF ContextOf(i) \in {Def("object")}
            THEN stack[i].this = ContextOf(i)
            ELSE stack[i].this = Def(Window)

\* a callback is running on the object given as its context
WitnessCallbackOnContext ==
    /\ stack # <<>>
    /\ Top.pc = "callback"
    /\ ContextOf(Len(stack)) = Def("object")
    /\ Top.this = Def("object")

\* an event delivered to closure w was deferred by the throttle and is still
\* waiting for an evaluation
Deferred(w) == w \in Watches /\ throttled[w].lastArgs

\* closure w exists, and its element is rendered and overlaps the viewport
InViewNow(w) == w \in Watches /\ Rendered(w) /\ Overlaps(w)

\* closure w exists and has fired
Fired(w) == w \in Watches /\ log[w].notified >= 1

\* C19: the rate limiter loses no event: an event that it defers is followed
\* by an evaluation of the watch that its throttled function starts, so that
\* an element that is rendered and overlaps the viewport after the last event
\* of a burst, and stays so, is fired.
DeferredEventEvaluated ==
    /\ \A w \in 1..MaxTokens :
          Deferred(w) ~> (Evaluating(w) /\ Top.how # "immediate")
    /\ \A w \in 1..MaxTokens :
          (Deferred(w) /\ InViewNow(w)) ~>
              (Fired(w) \/ ~InViewNow(w))

\* the evaluation that the throttle's timer started for a deferred event
\* fires the watch
WitnessFiredOnTimer ==
    /\ stack # <<>>
    /\ Top.pc = "visible"
    /\ Top.how = "timer"
    /\ log[Top.w].notified = 1

====
